---- MODULE Spec2Model ----
(***************************************************************************)
(* A model of gdoc-cli's document-sections.js: the section parser, the     *)
(* outline builder, the delete-request generators, the search engine and   *)
(* the MarkdownToDocsConverter.  Text is a sequence of one-character       *)
(* strings, so that lengths and substrings are computed as the code does.  *)
(* The batch rebaser and the population of table cells live in gdoc.js and *)
(* markdown-to-docs.js; they are modelled from the design document.         *)
(***************************************************************************)
EXTENDS Integers, Sequences, FiniteSets, TLC

VARIABLES
    pc,             \* position of the running command
    doc,            \* doc.body.content of the retrieved document
    sections,       \* result of parseDocumentSections
    outline,        \* result of buildOutline
    request,        \* result of createDeleteSection(Content)Request
    reqSection,     \* the section the delete request was asked for
    query,          \* searchInDocument: the query
    searchSection,  \* searchInDocument: the optional section
    matches,        \* searchInDocument: the matches found so far
    elemIdx,        \* searchInDocument: position of the for loop in content
    index,          \* searchInDocument: the scan index in the paragraph's text
    tokens,         \* convert: the token list returned by marked.lexer
    tokIdx,         \* convert: the number of tokens processed so far
    requests,       \* this.requests
    tableInsertRequests,    \* this.tableInsertRequests
    tables,         \* this.tables
    currentIndex,   \* this.currentIndex
    result,         \* the object returned by convert
    flatText,       \* the string returned by extractPlainText
    arrayId,        \* identity of the arrays this.requests, this.tableInsertRequests
                    \* and this.tables refer to (the call that allocated them)
    earlier,        \* the result objects earlier convert calls returned
    script,         \* rebaser: the script compiled at cursor 1
    insertIndex,    \* rebaser: the target index in the existing document
    rebased,        \* rebaser: the script rebased to insertIndex
    restored,       \* rebaser: the rebased script rebased back
    tableSpec,      \* cell population: the table's metadata (an entry of tables)
    snapshot,       \* cell population: the document retrieved after the table
                    \* was inserted
    pending,        \* cell population: the pending cell insertions
    cellOperations, \* cell population: the emitted batch
    populated       \* cell population: the document after the batch is applied

secVars == <<sections, outline, request, reqSection>>
searchVars == <<query, searchSection, matches, elemIdx, index>>
convVars == <<tokens, tokIdx, requests, tableInsertRequests, tables, currentIndex,
              result, flatText>>

callVars == <<arrayId, earlier>>
rebaseVars == <<script, insertIndex, rebased, restored>>
cellVars == <<tableSpec, snapshot, pending, cellOperations, populated>>
batchVars == <<rebaseVars, cellVars>>

vars == <<pc, doc, secVars, searchVars, convVars, callVars, batchVars>>

\* ------------------------------------------------------------------ bounds
MaxElems == 4
MaxLevel == 3
MaxParas == 2
MaxTextLen == 3
MaxQueryLen == 2
MaxBlocks == 2
MaxRows == 2
MaxCols == 2
MaxKids == 2

\* ------------------------------------------------------------- sequences
Range(s) == {s[i] : i \in DOMAIN s}

SeqsUpTo(S, n) == UNION {[1..k -> S] : k \in 1..n}

RECURSIVE Concat(_)
Concat(ss) == IF ss = <<>> THEN <<>> ELSE Head(ss) \o Concat(Tail(ss))

Last(s) == s[Len(s)]

Min(S) == CHOOSE x \in S : \A y \in S : x <= y

None == [none |-> TRUE]

\* ------------------------------------------------- the retrieved document
Newline == "\n"

HeadingStyle(l) == <<"HEADING_", l>>
NormalStyle == <<"NORMAL_TEXT">>

SectionBreak == [kind |-> "sectionBreak", endIndex |-> 1]

ParagraphShape(style, text) ==
    [kind |-> "paragraph", style |-> style, text |-> text]

TableShape == [kind |-> "table"]

\* A structural element laid out at `start`: a paragraph spans its text and
\* the newline that ends it, a one-cell table spans its structure markers.
Element(shape, start) ==
    IF shape.kind = "paragraph"
    THEN [kind |-> "paragraph",
          paragraphStyle |-> [namedStyleType |-> shape.style],
          elements |-> <<[content |-> shape.text \o <<Newline>>]>>,
          startIndex |-> start,
          endIndex |-> start + Len(shape.text) + 1]
    ELSE [kind |-> "table", startIndex |-> start, endIndex |-> start + 4]

RECURSIVE Layout(_, _)
Layout(shapes, start) ==
    IF shapes = <<>> THEN <<>>
    ELSE LET e == Element(Head(shapes), start)
         IN  <<e>> \o Layout(Tail(shapes), e.endIndex)

Content(shapes) == <<SectionBreak>> \o Layout(shapes, 1)

SectionShapes ==
    {ParagraphShape(HeadingStyle(l), <<"h">>) : l \in 1..MaxLevel}
    \cup {ParagraphShape(NormalStyle, t) : t \in {<<>>, <<"a", "b">>}}
    \cup {TableShape}

SectionDocs == {Content(sh) : sh \in SeqsUpTo(SectionShapes, MaxElems)}

\* --------------------------------------------------- parseDocumentSections
StartsWithHeading(namedStyleType) == namedStyleType[1] = "HEADING_"

ParseLevel(namedStyleType) == namedStyleType[2]

StripTrailingNewline(t) ==
    IF Len(t) > 0 /\ Last(t) = Newline THEN SubSeq(t, 1, Len(t) - 1) ELSE t

extractTextFromParagraph(paragraph) ==
    StripTrailingNewline(
        Concat([i \in DOMAIN paragraph.elements |-> paragraph.elements[i].content]))

IsHeading(element) ==
    /\ element.kind = "paragraph"
    /\ StartsWithHeading(element.paragraphStyle.namedStyleType)

Heading(element) ==
    [level |-> ParseLevel(element.paragraphStyle.namedStyleType),
     text |-> extractTextFromParagraph(element),
     startIndex |-> element.startIndex,
     endIndex |-> element.endIndex]

Headings(content) ==
    LET hs == SelectSeq(content, IsHeading)
    IN  [i \in DOMAIN hs |-> Heading(hs[i])]

\* mutant: a heading of the same level no longer closes the section
RECURSIVE EndHeadingIdx_SkipsEqual(_, _, _)
EndHeadingIdx_SkipsEqual(headings, level, idx) ==
    IF idx <= Len(headings) /\ headings[idx].level >= level
    THEN EndHeadingIdx_SkipsEqual(headings, level, idx + 1)
    ELSE idx

\* the while loop of lines 46-49
RECURSIVE EndHeadingIdx(_, _, _)
EndHeadingIdx(headings, level, idx) ==
    IF idx <= Len(headings) /\ headings[idx].level > level
    THEN EndHeadingIdx(headings, level, idx + 1)
    ELSE idx

\* mutant: every section runs to the end of the document
SectionEndIndexOf_ToDocEnd(content, headings, i) == Last(content).endIndex

SectionEndIndexOf(content, headings, i) ==
    IF i + 1 <= Len(headings)
    THEN LET endHeadingIdx == EndHeadingIdx(headings, headings[i].level, i + 1)
         IN  IF endHeadingIdx <= Len(headings)
             THEN headings[endHeadingIdx].startIndex
             ELSE Last(content).endIndex
    ELSE Last(content).endIndex

parseDocumentSections(content) ==
    LET headings == Headings(content)
    IN  [i \in DOMAIN headings |->
            LET heading == headings[i]
                sectionEndIndex == SectionEndIndexOf(content, headings, i)
            IN  [level |-> heading.level,
                 title |-> heading.text,
                 headingStartIndex |-> heading.startIndex,
                 headingEndIndex |-> heading.endIndex,
                 contentStartIndex |-> heading.endIndex,
                 contentEndIndex |-> sectionEndIndex,
                 sectionStartIndex |-> heading.startIndex,
                 sectionEndIndex |-> sectionEndIndex]]

\* ------------------------------------------------------------ buildOutline
\* Outline nodes are named by their position in `sections`; `roots` is the
\* returned array and children[i] the children array of node i.
\* mutant: a section of the same level stays on the stack as a parent
RECURSIVE PopStack_KeepsEqual(_, _, _)
PopStack_KeepsEqual(secs, stack, level) ==
    IF Len(stack) > 0 /\ secs[Last(stack)].level > level
    THEN PopStack_KeepsEqual(secs, SubSeq(stack, 1, Len(stack) - 1), level)
    ELSE stack

RECURSIVE PopStack(_, _, _)
PopStack(secs, stack, level) ==
    IF Len(stack) > 0 /\ secs[Last(stack)].level >= level
    THEN PopStack(secs, SubSeq(stack, 1, Len(stack) - 1), level)
    ELSE stack

RECURSIVE OutlineFrom(_, _, _)
OutlineFrom(secs, k, o) ==
    IF k > Len(secs) THEN o
    ELSE LET stack == PopStack(secs, o.stack, secs[k].level)
             attached ==
                 IF Len(stack) = 0
                 THEN [o EXCEPT !.roots = Append(@, k)]
                 ELSE [o EXCEPT !.children[Last(stack)] = Append(@, k)]
         IN  OutlineFrom(secs, k + 1, [attached EXCEPT !.stack = Append(stack, k)])

buildOutline(secs) ==
    LET o == OutlineFrom(secs, 1,
                 [roots |-> <<>>, children |-> [i \in DOMAIN secs |-> <<>>],
                  stack |-> <<>>])
    IN  [roots |-> o.roots, children |-> o.children]

\* ------------------------------------------------- delete-request builders
\* mutant: the range starts at the section, not at its content
createDeleteSectionContentRequest_FromSection(section) ==
    IF section.contentStartIndex >= section.contentEndIndex
    THEN None
    ELSE [deleteContentRange |->
             [range |-> [startIndex |-> section.sectionStartIndex,
                         endIndex |-> section.contentEndIndex - 1]]]

createDeleteSectionContentRequest(section) ==
    IF section.contentStartIndex >= section.contentEndIndex
    THEN None
    ELSE [deleteContentRange |->
             [range |-> [startIndex |-> section.contentStartIndex,
                         endIndex |-> section.contentEndIndex - 1]]]

\* mutant: the closing paragraph boundary is deleted too
createDeleteSectionRequest_NoBoundary(section) ==
    [deleteContentRange |->
        [range |-> [startIndex |-> section.sectionStartIndex,
                    endIndex |-> section.sectionEndIndex]]]

createDeleteSectionRequest(section) ==
    [deleteContentRange |->
        [range |-> [startIndex |-> section.sectionStartIndex,
                    endIndex |-> section.sectionEndIndex - 1]]]

\* The converter as its constructor leaves it (lines 317-322).
Constructed ==
    /\ tokens = <<>>
    /\ tokIdx = 0
    /\ requests = <<>>
    /\ tableInsertRequests = <<>>
    /\ tables = <<>>
    /\ currentIndex = 1
    /\ result = None
    /\ flatText = <<>>
    /\ arrayId = 0
    /\ earlier = <<>>

\* No script is being rebased.
RebaseIdle ==
    /\ script = <<>>
    /\ insertIndex = 1
    /\ rebased = None
    /\ restored = None

\* No table is being populated.
CellsIdle ==
    /\ tableSpec = None
    /\ snapshot = <<>>
    /\ pending = <<>>
    /\ cellOperations = <<>>
    /\ populated = <<>>

\* --------------------------------------------- the section commands' steps
InitSections ==
    /\ pc = "retrieved"
    /\ doc \in SectionDocs
    /\ sections = None
    /\ outline = None
    /\ request = None
    /\ reqSection = 0
    /\ query = <<>>
    /\ searchSection = None
    /\ matches = <<>>
    /\ elemIdx = 0
    /\ index = 0
    /\ Constructed
    /\ RebaseIdle
    /\ CellsIdle

ParseDocumentSections ==
    /\ pc = "retrieved"
    /\ sections' = parseDocumentSections(doc)
    /\ pc' = "parsed"
    /\ UNCHANGED <<doc, callVars, batchVars,
                 outline, request, reqSection, searchVars, convVars>>

BuildOutline ==
    /\ pc = "parsed"
    /\ outline' = buildOutline(sections)
    /\ pc' = "outlined"
    /\ UNCHANGED <<doc, callVars, batchVars,
                 sections, request, reqSection, searchVars, convVars>>

CreateDeleteSectionContentRequest ==
    /\ pc = "parsed"
    /\ \E i \in DOMAIN sections :
        /\ request' = createDeleteSectionContentRequest(sections[i])
        /\ reqSection' = i
    /\ pc' = "contentDelete"
    /\ UNCHANGED <<doc, callVars, batchVars,
                 sections, outline, searchVars, convVars>>

CreateDeleteSectionRequest ==
    /\ pc = "parsed"
    /\ \E i \in DOMAIN sections :
        /\ request' = createDeleteSectionRequest(sections[i])
        /\ reqSection' = i
    /\ pc' = "sectionDelete"
    /\ UNCHANGED <<doc, callVars, batchVars,
                 sections, outline, searchVars, convVars>>

NextSections ==
    \/ ParseDocumentSections
    \/ BuildOutline
    \/ CreateDeleteSectionContentRequest
    \/ CreateDeleteSectionRequest

SpecSections == InitSections /\ [][NextSections]_vars

\* --------------------------------------------------------- searchInDocument
\* One string per UTF-16 code unit.  DottedI is U+0130, the capital I with a
\* dot above; its lower case is the two units "i" and CombiningDot (U+0307).
DottedI == "I"
CombiningDot == "."

Alphabet == {"a", "A", "b", DottedI}

\* the lower case of one code unit (Unicode's unconditional case mapping)
LowerChars(c) ==
    IF c = "A" THEN <<"a">>
    ELSE IF c = DottedI THEN <<"i", CombiningDot>>
    ELSE <<c>>

toLowerCase(t) == Concat([i \in DOMAIN t |-> LowerChars(t[i])])

SearchTexts == UNION {[1..k -> Alphabet] : k \in 0..MaxTextLen}

\* the query is any string, the empty one too
Queries == UNION {[1..k -> Alphabet] : k \in 0..MaxQueryLen}

\* The matches array grows as long as memory lasts; the model stops a scan
\* that has found more matches than the paragraphs of a document have
\* characters.
MaxMatches == MaxParas * MaxTextLen + 1

\* The documents searched: a heading titled "Ab" and body paragraphs that
\* carry the text t, in any arrangement.
SearchShapes(t) ==
    {ParagraphShape(HeadingStyle(1), <<"A", "b">>), ParagraphShape(NormalStyle, t),
     TableShape}

SearchDocs ==
    {Content(sh) : sh \in UNION {SeqsUpTo(SearchShapes(t), MaxParas) : t \in SearchTexts}}

\* String.prototype.indexOf(q, from), 0-based: the first occurrence of q at
\* or after from (clamped to the text's length), or -1.
indexOf(text, q, from) ==
    LET f == IF from > Len(text) THEN Len(text) ELSE from
        hits == {i \in f..(Len(text) - Len(q)) : SubSeq(text, i + 1, i + Len(q)) = q}
    IN  IF hits = {} THEN -1 ELSE CHOOSE i \in hits : \A j \in hits : i <= j

\* text.substring(from, to), 0-based, clipped to the text
substring(text, from, to) ==
    SubSeq(text, from + 1, IF to > Len(text) THEN Len(text) ELSE to)

\* lines 254-255 and 260: searchStartIndex is 0 and searchEndIndex Infinity
\* when no section is given
OutsideSearchRange(element, section) ==
    IF section = None
    THEN element.startIndex < 0
    ELSE \/ element.startIndex < section.sectionStartIndex
         \/ element.startIndex >= section.sectionEndIndex

\* line 286
NextScanIndex(hit, q) == hit + Len(q)

Match(element, text, q, hit) ==
    [startIndex |-> element.startIndex + hit,
     endIndex |-> element.startIndex + hit + Len(q),
     text |-> substring(text, hit, hit + Len(q)),
     paragraphIndex |-> element.startIndex]

InitSearch ==
    /\ pc = "retrieved"
    /\ doc \in SearchDocs
    /\ sections = None
    /\ outline = None
    /\ request = None
    /\ reqSection = 0
    /\ query = <<>>
    /\ searchSection = None
    /\ matches = <<>>
    /\ elemIdx = 0
    /\ index = 0
    /\ Constructed
    /\ RebaseIdle
    /\ CellsIdle

\* lines 249-255
SearchInDocument ==
    /\ pc = "parsed"
    /\ query' \in Queries
    /\ searchSection' \in {None} \cup Range(sections)
    /\ matches' = <<>>
    /\ elemIdx' = 1
    /\ index' = 0
    /\ pc' = "searching"
    /\ UNCHANGED <<doc, callVars, batchVars,
                 secVars, convVars>>

Searchable(element) ==
    /\ element.kind = "paragraph"
    /\ ~OutsideSearchRange(element, searchSection)

\* lines 258-262: not a paragraph, or outside the search range
SearchSkipElement ==
    /\ pc = "searching"
    /\ elemIdx <= Len(doc)
    /\ ~Searchable(doc[elemIdx])
    /\ elemIdx' = elemIdx + 1
    /\ index' = 0
    /\ UNCHANGED <<pc, doc, callVars, batchVars,
                 secVars, query, searchSection, matches, convVars>>

\* lines 268-286: one iteration of the while loop that finds an occurrence
SearchHit ==
    /\ pc = "searching"
    /\ elemIdx <= Len(doc)
    /\ Searchable(doc[elemIdx])
    /\ Len(matches) < MaxMatches
    /\ LET text == extractTextFromParagraph(doc[elemIdx])
           hit == indexOf(toLowerCase(text), toLowerCase(query), index)
       IN  /\ hit # -1
           /\ matches' = Append(matches, Match(doc[elemIdx], text, query, hit))
           /\ index' = NextScanIndex(hit, query)
    /\ UNCHANGED <<pc, doc, callVars, batchVars,
                 secVars, query, searchSection, elemIdx, convVars>>

\* line 268: no further occurrence, the for loop moves on
SearchNextElement ==
    /\ pc = "searching"
    /\ elemIdx <= Len(doc)
    /\ Searchable(doc[elemIdx])
    /\ LET text == extractTextFromParagraph(doc[elemIdx])
       IN  indexOf(toLowerCase(text), toLowerCase(query), index) = -1
    /\ elemIdx' = elemIdx + 1
    /\ index' = 0
    /\ UNCHANGED <<pc, doc, callVars, batchVars,
                 secVars, query, searchSection, matches, convVars>>

\* line 291
SearchReturn ==
    /\ pc = "searching"
    /\ elemIdx > Len(doc)
    /\ pc' = "searched"
    /\ UNCHANGED <<doc, callVars, batchVars,
                 secVars, searchVars, convVars>>

NextSearch ==
    \/ ParseDocumentSections
    \/ SearchInDocument
    \/ SearchSkipElement
    \/ SearchHit
    \/ SearchNextElement
    \/ SearchReturn

SpecSearch == InitSearch /\ [][NextSearch]_vars

\* ------------------------------------------------ tokens of marked.lexer
\* A token carries its type, its raw markdown, its literal text and its
\* child tokens; a field the lexer leaves out is the empty sequence, which
\* the code treats like a missing one.
RawOf(kids) == Concat([i \in DOMAIN kids |-> kids[i].raw])

Text(t) == [type |-> "text", raw |-> t, text |-> t, tokens |-> <<>>]

\* the code delimiter (written as an apostrophe here)
Tick == "'"

Codespan(t) ==
    [type |-> "codespan", raw |-> <<Tick>> \o t \o <<Tick>>, text |-> t, tokens |-> <<>>]

Escape(c) == [type |-> "escape", raw |-> <<"\\", c>>, text |-> <<c>>, tokens |-> <<>>]

Br == [type |-> "br", raw |-> <<Newline>>, text |-> <<>>, tokens |-> <<>>]

SpaceToken ==
    [type |-> "space", raw |-> <<Newline, Newline>>, text |-> <<>>, tokens |-> <<>>]

HrToken == [type |-> "hr", raw |-> <<"-", "-", "-">>, text |-> <<>>, tokens |-> <<>>]

Strong(kids) ==
    [type |-> "strong", raw |-> <<"*", "*">> \o RawOf(kids) \o <<"*", "*">>,
     text |-> RawOf(kids), tokens |-> kids]

Em(kids) ==
    [type |-> "em", raw |-> <<"*">> \o RawOf(kids) \o <<"*">>,
     text |-> RawOf(kids), tokens |-> kids]

Link(kids) ==
    [type |-> "link", raw |-> <<"[">> \o RawOf(kids) \o <<"]", "(", "u", ")">>,
     text |-> RawOf(kids), href |-> <<"u">>, tokens |-> kids]

Del(kids) ==
    [type |-> "del", raw |-> <<"~", "~">> \o RawOf(kids) \o <<"~", "~">>,
     text |-> RawOf(kids), tokens |-> kids]

\* the text block of a tight list item: its text is the raw markdown
BlockText(kids) ==
    [type |-> "text", raw |-> RawOf(kids), text |-> RawOf(kids), tokens |-> kids]

ParagraphToken(kids) ==
    [type |-> "paragraph", raw |-> RawOf(kids), text |-> RawOf(kids), tokens |-> kids]

Blockquote(blocks) ==
    [type |-> "blockquote", raw |-> <<">", " ">> \o RawOf(blocks),
     text |-> RawOf(blocks), tokens |-> blocks]

HeadingToken(depth, kids) ==
    [type |-> "heading", depth |-> depth, raw |-> <<"#", " ">> \o RawOf(kids),
     text |-> RawOf(kids), tokens |-> kids]

ListItem(kids) ==
    [type |-> "list_item", raw |-> <<"-", " ">> \o RawOf(kids),
     text |-> RawOf(kids), tokens |-> kids]

ListToken(ordered, items) ==
    [type |-> "list", ordered |-> ordered, raw |-> RawOf(items), items |-> items]

CodeToken(t) ==
    [type |-> "code", raw |-> <<Tick, Tick, Tick>> \o t \o <<Tick, Tick, Tick>>,
     text |-> t]

Cell(kids) == [text |-> RawOf(kids), tokens |-> kids]

TableToken(header, rows) == [type |-> "table", header |-> header, rows |-> rows]

\* ------------------------------------------------------- extractPlainText
RECURSIVE extractPlainText(_)

\* mutant: a formatting node contributes its literal text
PlainTextOfToken_Literal(token) ==
    IF token.type \in {"strong", "em", "link"}
    THEN token.text
    ELSE IF Len(token.tokens) > 0
    THEN extractPlainText(token.tokens)
    ELSE IF token.type \in {"text", "codespan"}
    THEN token.text
    ELSE IF token.type = "space"
    THEN <<" ">>
    ELSE token.text

\* the body of the for loop, lines 660-673
PlainTextOfToken(token) ==
    IF token.type \in {"strong", "em", "link"}
    THEN extractPlainText(token.tokens)
    ELSE IF Len(token.tokens) > 0
    THEN extractPlainText(token.tokens)
    ELSE IF token.type \in {"text", "codespan"}
    THEN token.text
    ELSE IF token.type = "space"
    THEN <<" ">>
    ELSE token.text

extractPlainText(toks) ==
    IF toks = <<>> THEN <<>>
    ELSE PlainTextOfToken(Head(toks)) \o extractPlainText(Tail(toks))

\* ---------------------------------------------------------- the operations
InsertText(idx, text) ==
    [insertText |-> [location |-> [index |-> idx], text |-> text]]

UpdateParagraphStyle(startIndex, endIndex, namedStyleType) ==
    [updateParagraphStyle |->
        [range |-> [startIndex |-> startIndex, endIndex |-> endIndex],
         paragraphStyle |-> [namedStyleType |-> namedStyleType],
         fields |-> "namedStyleType"]]

CreateParagraphBullets(startIndex, endIndex, bulletPreset) ==
    [createParagraphBullets |->
        [range |-> [startIndex |-> startIndex, endIndex |-> endIndex],
         bulletPreset |-> bulletPreset]]

UpdateTextStyle(startIndex, endIndex, textStyle, fields) ==
    [updateTextStyle |->
        [range |-> [startIndex |-> startIndex, endIndex |-> endIndex],
         textStyle |-> textStyle,
         fields |-> fields]]

LightGray ==
    [color |-> [rgbColor |-> [red |-> "0.95", green |-> "0.95", blue |-> "0.95"]]]

\* --------------------------------------------------- applyInlineFormatting
\* lines 566-574
InlineLength(token) ==
    IF token.type \in {"strong", "em", "link"}
    THEN Len(extractPlainText(token.tokens))
    ELSE IF token.type \in {"text", "codespan"}
    THEN Len(token.text)
    ELSE 0

\* lines 579-644
InlineStyle(token, tokenStart, tokenEnd) ==
    IF token.type = "strong"
    THEN <<UpdateTextStyle(tokenStart, tokenEnd, [bold |-> TRUE], "bold")>>
    ELSE IF token.type = "em"
    THEN <<UpdateTextStyle(tokenStart, tokenEnd, [italic |-> TRUE], "italic")>>
    ELSE IF token.type = "link"
    THEN <<UpdateTextStyle(tokenStart, tokenEnd, [link |-> [url |-> token.href]], "link")>>
    ELSE IF token.type = "codespan"
    THEN <<UpdateTextStyle(tokenStart, tokenEnd,
               [weightedFontFamily |-> [fontFamily |-> "Courier New"],
                backgroundColor |-> LightGray],
               "weightedFontFamily,backgroundColor")>>
    ELSE <<>>

RECURSIVE InlineFormattingFrom(_, _, _)
InlineFormattingFrom(toks, startOffset, currentOffset) ==
    IF toks = <<>> THEN <<>>
    ELSE LET token == Head(toks)
             length == InlineLength(token)
             tokenStart == startOffset + currentOffset
             tokenEnd == tokenStart + length
         IN  InlineStyle(token, tokenStart, tokenEnd)
             \o (IF Len(token.tokens) > 0
                 THEN InlineFormattingFrom(token.tokens, tokenStart, 0)
                 ELSE <<>>)
             \o InlineFormattingFrom(Tail(toks), startOffset, currentOffset + length)

applyInlineFormatting(toks, startOffset) == InlineFormattingFrom(toks, startOffset, 0)

\* ------------------------------------------------------- the block methods
\* Each gives the operations it pushes and the cursor it leaves.
addHeading(token, cursor) ==
    LET text == extractPlainText(token.tokens) \o <<Newline>>
        startIndex == cursor
        after == cursor + Len(text)
    IN  [requests |->
            <<InsertText(cursor, text),
              UpdateParagraphStyle(startIndex, after - 1, HeadingStyle(token.depth))>>
            \o applyInlineFormatting(token.tokens, startIndex),
         currentIndex |-> after]

addParagraph(token, cursor) ==
    LET text == extractPlainText(token.tokens) \o <<Newline>>
        startIndex == cursor
        after == cursor + Len(text)
    IN  [requests |->
            <<InsertText(cursor, text)>>
            \o applyInlineFormatting(token.tokens, startIndex),
         currentIndex |-> after]

BulletPreset(isOrdered) ==
    IF isOrdered THEN "NUMBERED_DECIMAL_ALPHA_ROMAN" ELSE "BULLET_DISC_CIRCLE_SQUARE"

RECURSIVE ListItemsFrom(_, _, _)
ListItemsFrom(items, isOrdered, cursor) ==
    IF items = <<>> THEN [requests |-> <<>>, currentIndex |-> cursor]
    ELSE LET item == Head(items)
             text == extractPlainText(item.tokens) \o <<Newline>>
             startIndex == cursor
             after == cursor + Len(text)
             rest == ListItemsFrom(Tail(items), isOrdered, after)
         IN  [requests |->
                 <<InsertText(cursor, text),
                   CreateParagraphBullets(startIndex, after - 1, BulletPreset(isOrdered))>>
                 \o applyInlineFormatting(item.tokens, startIndex)
                 \o rest.requests,
              currentIndex |-> rest.currentIndex]

addList(token, cursor) == ListItemsFrom(token.items, token.ordered, cursor)

addCodeBlock(token, cursor) ==
    LET text == token.text \o <<Newline, Newline>>
        startIndex == cursor
        after == cursor + Len(text)
    IN  [requests |->
            <<InsertText(cursor, text),
              UpdateTextStyle(startIndex, after - 2,
                  [weightedFontFamily |-> [fontFamily |-> "Courier New"],
                   fontSize |-> [magnitude |-> 10, unit |-> "PT"],
                   backgroundColor |-> LightGray],
                  "weightedFontFamily,fontSize,backgroundColor")>>,
         currentIndex |-> after]

\* ----------------------------------------------------------------- addTable
DigitChar(d) == <<"0", "1", "2", "3", "4", "5", "6", "7", "8", "9">>[d + 1]

\* the decimal digits a template literal writes for a number
RECURSIVE Digits(_)
Digits(n) == IF n < 10 THEN <<DigitChar(n)>> ELSE Digits(n \div 10) \o <<DigitChar(n % 10)>>

\* mutant: the header row is not counted
TableRows_NoHeader(token) == Len(token.rows)

\* line 502
TableRows(token) == Len(token.rows) + 1

\* line 503
TableCols(token) == Len(token.header)

\* line 507
TablePlaceholder(rows, cols) ==
    <<"[", "T", "A", "B", "L", "E", ":">> \o Digits(rows) \o <<"x">> \o Digits(cols)
    \o <<"]", Newline>>

\* lines 520-527
HeaderCells(token, cols) ==
    [col \in 1..cols |->
        [row |-> 0, col |-> col - 1,
         text |-> extractPlainText(token.header[col].tokens), bold |-> TRUE]]

\* lines 530-539
DataCells(token, cols) ==
    Concat([row \in 1..Len(token.rows) |->
        [col \in 1..cols |->
            [row |-> row, col |-> col - 1,
             text |-> extractPlainText(token.rows[row][col].tokens), bold |-> FALSE]]])

addTable(token, cursor) ==
    LET rows == TableRows(token)
        cols == TableCols(token)
        tableStartIndex == cursor
        placeholder == TablePlaceholder(rows, cols)
    IN  [requests |-> <<InsertText(tableStartIndex, placeholder)>>,
         currentIndex |-> cursor + Len(placeholder),
         table |-> [placeholderIndex |-> tableStartIndex,
                    placeholderLength |-> Len(placeholder),
                    rows |-> rows,
                    cols |-> cols,
                    cellData |-> HeaderCells(token, cols) \o DataCells(token, cols)],
         tableInsertRequest |-> [placeholderIndex |-> tableStartIndex,
                                 placeholderLength |-> Len(placeholder),
                                 rows |-> rows,
                                 cols |-> cols]]

\* ------------------------------------------------- the markdown converted
Plain(t) == Text(t)

ConvInline ==
    {Plain(<<"a">>), Codespan(<<"c">>), Escape("_"),
     Strong(<<Plain(<<"a">>)>>), Em(<<Plain(<<"a">>)>>), Link(<<Plain(<<"a">>)>>),
     Strong(<<Plain(<<"a">>), Em(<<Plain(<<"b">>)>>)>>),
     Del(<<Plain(<<"a">>)>>),
     Link(<<>>)}

\* an inline token alone, or followed by a bold word
ConvSpans ==
    {<<x>> : x \in ConvInline}
    \cup {<<x, Strong(<<Plain(<<"b">>)>>)>> : x \in ConvInline}

HeadingSpans == {<<Plain(<<"a">>)>>, <<Plain(<<"a">>), Strong(<<Plain(<<"b">>)>>)>>}

\* what a list item holds: a text block, possibly followed by another block
ItemSpans ==
    {<<BlockText(<<Plain(<<"a">>)>>)>>,
     <<BlockText(<<Strong(<<Plain(<<"a">>)>>), Plain(<<"b">>)>>)>>,
     <<BlockText(<<Strong(<<Plain(<<"a">>)>>)>>),
       Blockquote(<<ParagraphToken(<<Strong(<<Plain(<<"b">>)>>)>>)>>)>>}

ItemLists ==
    {<<ListItem(s)>> : s \in ItemSpans}
    \cup {<<ListItem(s), ListItem(<<BlockText(<<Plain(<<"a">>)>>)>>)>> : s \in ItemSpans}

\* a table of r data rows and c columns; every cell names its coordinates
TableOf(r, c) ==
    TableToken(
        [col \in 1..c |-> Cell(<<Strong(<<Plain(<<"h", DigitChar(col - 1)>>)>>)>>)],
        [row \in 1..r |->
            [col \in 1..c |-> Cell(<<Plain(<<DigitChar(row), DigitChar(col - 1)>>)>>)]])

Blocks ==
    {ParagraphToken(sp) : sp \in ConvSpans}
    \cup {HeadingToken(d, sp) : d \in 1..MaxLevel, sp \in HeadingSpans}
    \cup {ListToken(o, items) : o \in BOOLEAN, items \in ItemLists}
    \cup {CodeToken(<<>>), CodeToken(<<"c", Newline, "d">>)}
    \cup {HeadingToken(1, <<>>), ListToken(FALSE, <<ListItem(<<>>)>>)}
    \cup {TableOf(r, c) : r \in 0..MaxRows, c \in 1..MaxCols}
    \cup {TableOf(9, 1)}
    \cup {SpaceToken, HrToken}

TokenLists == UNION {[1..k -> Blocks] : k \in 0..MaxBlocks}

\* ------------------------------------------------------------------ convert
SectionsIdle ==
    /\ sections = None
    /\ outline = None
    /\ request = None
    /\ reqSection = 0

SearchIdle ==
    /\ query = <<>>
    /\ searchSection = None
    /\ matches = <<>>
    /\ elemIdx = 0
    /\ index = 0

InitConvert ==
    /\ pc = "constructed"
    /\ doc = <<SectionBreak>>
    /\ SectionsIdle
    /\ SearchIdle
    /\ Constructed
    /\ RebaseIdle
    /\ CellsIdle

\* mutant: the arrays are emptied in place (this.requests.length = 0)
NewArrays_EmptiedInPlace(id) == id

\* lines 330-332: "= []" makes this.requests, this.tableInsertRequests and
\* this.tables refer to new arrays
NewArrays(id) == id + 1

\* What the result objects held by the caller read once the arrays id hold
\* r, t and tb: a result object refers to the arrays, it does not copy them
\* (lines 341-345).
Held(results, id, r, t, tb) ==
    [i \in DOMAIN results |->
        IF results[i].arrayId = id
        THEN [results[i] EXCEPT !.value = [contentRequests |-> r,
                                            tableRequests |-> t,
                                            tables |-> tb]]
        ELSE results[i]]

\* lines 330-335: convert(markdown) for a markdown whose token list is in
\* inputs; the caller keeps the result of the call before
ConvertFrom(inputs) ==
    /\ arrayId' = NewArrays(arrayId)
    /\ requests' = <<>>
    /\ tableInsertRequests' = <<>>
    /\ tables' = <<>>
    /\ currentIndex' = 1
    /\ earlier' = Held(IF result = None THEN earlier
                       ELSE Append(earlier, [arrayId |-> arrayId, value |-> result]),
                       arrayId', <<>>, <<>>, <<>>)
    /\ result' = None
    /\ tokens' \in inputs
    /\ tokIdx' = 0
    /\ pc' = "converting"
    /\ UNCHANGED <<doc, batchVars, secVars, searchVars, flatText>>

\* the first call on a converter
Convert ==
    /\ pc = "constructed"
    /\ ConvertFrom(TokenLists)

Processing(type) ==
    /\ pc = "converting"
    /\ tokIdx < Len(tokens)
    /\ tokens[tokIdx + 1].type = type

\* a block method that pushes operations and moves the cursor
Pushes(r) ==
    /\ requests' = requests \o r.requests
    /\ currentIndex' = r.currentIndex
    /\ tokIdx' = tokIdx + 1
    /\ earlier' = Held(earlier, arrayId, requests', tableInsertRequests, tables)
    /\ UNCHANGED <<pc, doc, batchVars, secVars, searchVars, tokens, tableInsertRequests,
                   tables, result, flatText, arrayId>>

AddHeading == Processing("heading") /\ Pushes(addHeading(tokens[tokIdx + 1], currentIndex))

AddParagraph ==
    Processing("paragraph") /\ Pushes(addParagraph(tokens[tokIdx + 1], currentIndex))

AddList == Processing("list") /\ Pushes(addList(tokens[tokIdx + 1], currentIndex))

AddCodeBlock == Processing("code") /\ Pushes(addCodeBlock(tokens[tokIdx + 1], currentIndex))

AddTable ==
    /\ Processing("table")
    /\ LET r == addTable(tokens[tokIdx + 1], currentIndex)
       IN  /\ requests' = requests \o r.requests
           /\ currentIndex' = r.currentIndex
           /\ tables' = Append(tables, r.table)
           /\ tableInsertRequests' = Append(tableInsertRequests, r.tableInsertRequest)
    /\ tokIdx' = tokIdx + 1
    /\ earlier' = Held(earlier, arrayId, requests', tableInsertRequests', tables')
    /\ UNCHANGED <<pc, doc, batchVars, secVars, searchVars, tokens, result, flatText,
                   arrayId>>

\* lines 365-367
SkipSpace ==
    /\ Processing("space")
    /\ tokIdx' = tokIdx + 1
    /\ UNCHANGED <<pc, doc, callVars, batchVars,
                 secVars, searchVars, tokens, requests, tableInsertRequests,
                   tables, currentIndex, result, flatText>>

\* lines 368-369: console.warn
WarnUnsupported ==
    /\ pc = "converting"
    /\ tokIdx < Len(tokens)
    /\ tokens[tokIdx + 1].type \notin {"heading", "paragraph", "list", "code", "table", "space"}
    /\ tokIdx' = tokIdx + 1
    /\ UNCHANGED <<pc, doc, callVars, batchVars,
                 secVars, searchVars, tokens, requests, tableInsertRequests,
                   tables, currentIndex, result, flatText>>

\* lines 341-345
ConvertReturn ==
    /\ pc = "converting"
    /\ tokIdx = Len(tokens)
    /\ result' = [contentRequests |-> requests,
                  tableRequests |-> tableInsertRequests,
                  tables |-> tables]
    /\ pc' = "returned"
    /\ UNCHANGED <<doc, callVars, batchVars,
                 secVars, searchVars, tokens, tokIdx, requests, tableInsertRequests,
                   tables, currentIndex, flatText>>

NextConvert ==
    \/ Convert
    \/ AddHeading
    \/ AddParagraph
    \/ AddList
    \/ AddCodeBlock
    \/ AddTable
    \/ SkipSpace
    \/ WarnUnsupported
    \/ ConvertReturn

SpecConvert == InitConvert /\ [][NextConvert]_vars

\* ------------------------------------------ several calls on one converter
MaxCalls == 3

\* the markdown of the calls
CallTokenLists ==
    {<<>>,
     <<ParagraphToken(<<Plain(<<"a">>), Strong(<<Plain(<<"b">>)>>)>>)>>,
     <<HeadingToken(1, <<Plain(<<"a">>)>>), SpaceToken, TableOf(1, 1)>>,
     <<ListToken(TRUE, <<ListItem(<<BlockText(<<Plain(<<"a">>)>>)>>)>>), HrToken,
       CodeToken(<<"c">>)>>,
     <<TableOf(0, 2), TableOf(1, 1)>>}

InitCalls == InitConvert

\* convert called on a converter that is new or has been used
ConvertCall ==
    /\ pc \in {"constructed", "returned"}
    /\ Len(earlier) + (IF result = None THEN 0 ELSE 1) < MaxCalls
    /\ ConvertFrom(CallTokenLists)

NextCalls ==
    \/ ConvertCall
    \/ AddHeading
    \/ AddParagraph
    \/ AddList
    \/ AddCodeBlock
    \/ AddTable
    \/ SkipSpace
    \/ WarnUnsupported
    \/ ConvertReturn

SpecCalls == InitCalls /\ [][NextCalls]_vars

\* --------------------------------------- convert on a converter just built
\* processToken (lines 348-371) on the converter fields st
processToken(token, st) ==
    LET pushed(r) == [st EXCEPT !.requests = @ \o r.requests,
                                !.currentIndex = r.currentIndex]
    IN  IF token.type = "heading" THEN pushed(addHeading(token, st.currentIndex))
        ELSE IF token.type = "paragraph" THEN pushed(addParagraph(token, st.currentIndex))
        ELSE IF token.type = "list" THEN pushed(addList(token, st.currentIndex))
        ELSE IF token.type = "code" THEN pushed(addCodeBlock(token, st.currentIndex))
        ELSE IF token.type = "table"
        THEN LET r == addTable(token, st.currentIndex)
             IN  [requests |-> st.requests \o r.requests,
                  currentIndex |-> r.currentIndex,
                  tables |-> Append(st.tables, r.table),
                  tableInsertRequests |-> Append(st.tableInsertRequests,
                                                 r.tableInsertRequest)]
        ELSE st

\* lines 337-339
RECURSIVE ProcessTokens(_, _)
ProcessTokens(toks, st) ==
    IF toks = <<>> THEN st ELSE ProcessTokens(Tail(toks), processToken(Head(toks), st))

\* new MarkdownToDocsConverter().convert(markdown), toks the markdown's tokens
convert(toks) ==
    LET st == ProcessTokens(toks, [requests |-> <<>>,
                                   tableInsertRequests |-> <<>>,
                                   tables |-> <<>>,
                                   currentIndex |-> 1])
    IN  [contentRequests |-> st.requests,
         tableRequests |-> st.tableInsertRequests,
         tables |-> st.tables]

\* ------------------------------------------------------------ batch rebaser
MaxInsertIndex == 3

ShiftRange(range, offset) ==
    [startIndex |-> range.startIndex + offset, endIndex |-> range.endIndex + offset]

\* mutant: the bullet operations are left where they were compiled
RebaseOperation_SkipsBullets(op, offset) ==
    IF "insertText" \in DOMAIN op
    THEN [op EXCEPT !.insertText.location.index = @ + offset]
    ELSE IF "updateTextStyle" \in DOMAIN op
    THEN [op EXCEPT !.updateTextStyle.range = ShiftRange(@, offset)]
    ELSE IF "updateParagraphStyle" \in DOMAIN op
    THEN [op EXCEPT !.updateParagraphStyle.range = ShiftRange(@, offset)]
    ELSE IF "deleteContentRange" \in DOMAIN op
    THEN [op EXCEPT !.deleteContentRange.range = ShiftRange(@, offset)]
    ELSE op

\* One operation rebased: offset is added to the index fields of its variant;
\* an InsertTable operation is not touched.
RebaseOperation(op, offset) ==
    IF "insertText" \in DOMAIN op
    THEN [op EXCEPT !.insertText.location.index = @ + offset]
    ELSE IF "updateTextStyle" \in DOMAIN op
    THEN [op EXCEPT !.updateTextStyle.range = ShiftRange(@, offset)]
    ELSE IF "updateParagraphStyle" \in DOMAIN op
    THEN [op EXCEPT !.updateParagraphStyle.range = ShiftRange(@, offset)]
    ELSE IF "createParagraphBullets" \in DOMAIN op
    THEN [op EXCEPT !.createParagraphBullets.range = ShiftRange(@, offset)]
    ELSE IF "deleteContentRange" \in DOMAIN op
    THEN [op EXCEPT !.deleteContentRange.range = ShiftRange(@, offset)]
    ELSE op

RebaseBy(ops, offset) == [i \in DOMAIN ops |-> RebaseOperation(ops[i], offset)]

\* a script compiled at cursor 1, rebased to target
Rebase(ops, target) == RebaseBy(ops, target - 1)

InsertTable(idx, rows, columns) ==
    [insertTable |-> [location |-> [index |-> idx], rows |-> rows, columns |-> columns]]

\* The scripts rebased: what convert compiles for one block, or for a heading
\* and a list, alone or followed by a DeleteRange and an InsertTable.
RebaseTokenLists ==
    {<<b>> : b \in Blocks}
    \cup {<<HeadingToken(1, sp), ListToken(FALSE, items)>> :
            sp \in HeadingSpans, items \in ItemLists}

Tails ==
    {<<>>,
     <<createDeleteSectionRequest([sectionStartIndex |-> 1, sectionEndIndex |-> 4])>>,
     <<createDeleteSectionRequest([sectionStartIndex |-> 1, sectionEndIndex |-> 4]),
       InsertTable(1, 2, 2)>>}

Scripts == {convert(t).contentRequests \o d : t \in RebaseTokenLists, d \in Tails}

InitRebase ==
    /\ pc = "compiled"
    /\ doc = <<SectionBreak>>
    /\ SectionsIdle
    /\ SearchIdle
    /\ Constructed
    /\ CellsIdle
    /\ script \in Scripts
    /\ insertIndex \in 1..MaxInsertIndex
    /\ rebased = None
    /\ restored = None

RebaseScript ==
    /\ pc = "compiled"
    /\ rebased' = Rebase(script, insertIndex)
    /\ pc' = "rebased"
    /\ UNCHANGED <<doc, secVars, searchVars, convVars, callVars, cellVars, script,
                   insertIndex, restored>>

\* the rebased script rebased by the opposite offset
RebaseBack ==
    /\ pc = "rebased"
    /\ restored' = RebaseBy(rebased, -(insertIndex - 1))
    /\ pc' = "restored"
    /\ UNCHANGED <<doc, secVars, searchVars, convVars, callVars, cellVars, script,
                   insertIndex, rebased>>

NextRebase ==
    \/ RebaseScript
    \/ RebaseBack

SpecRebase == InitRebase /\ [][NextRebase]_vars

\* ---------------------------------------------------- table cell population
\* A retrieved document is a sequence of characters, the character at index
\* k at position k.  Every character belongs to one table cell, <<row, col>>,
\* or to none (the table's, a row's or a cell's opening, or text outside).
Outside == <<>>

Char(c, cell) == [ch |-> c, cell |-> cell, bold |-> FALSE]

Chars(text, cell) == [i \in DOMAIN text |-> Char(text[i], cell)]

CellsOf(rows, cols) == (0..(rows - 1)) \X (0..(cols - 1))

\* a table of rows x cols after a paragraph "p": every cell holds one
\* paragraph, the text existing[cell] and its newline
MaterializedDocument(rows, cols, existing) ==
    Chars(<<"p", Newline>>, Outside)
    \o <<Char("T", Outside)>>
    \o Concat([r \in 1..rows |->
            <<Char("R", Outside)>>
            \o Concat([c \in 1..cols |->
                    <<Char("C", Outside)>>
                    \o Chars(existing[<<r - 1, c - 1>>] \o <<Newline>>, <<r - 1, c - 1>>)])])
    \o Chars(<<Newline>>, Outside)

\* the cells are empty, but for at most one that holds a space and at most
\* one that holds text
Prefills(rows, cols) ==
    {[cell \in CellsOf(rows, cols) |->
        IF cell = x THEN <<"x">> ELSE IF cell = w THEN <<" ">> ELSE <<>>] :
        x \in CellsOf(rows, cols) \cup {None}, w \in CellsOf(rows, cols) \cup {None}}

\* The table the document holds has the recorded size, or a row less when
\* the table found is not the one the metadata was recorded for.
Snapshots(rows, cols) ==
    {MaterializedDocument(r, cols, e) :
        r \in {rows} \cup ({rows - 1} \ {0}), e \in Prefills(rows, cols)}

\* a table whose cell texts differ in length (the last one may be empty)
PopulatedTable(r, c) ==
    TableToken(
        [col \in 1..c |-> Cell(<<Strong(<<Plain(<<"h", DigitChar(col - 1)>>)>>)>>)],
        [row \in 1..r |->
            [col \in 1..c |->
                Cell(IF (row + col) % 3 = 0 THEN <<>>
                     ELSE <<Plain(SubSeq(<<"y", "z">>, 1, (row + col) % 3))>>)]])

TableSpecs ==
    {convert(<<PopulatedTable(r, c)>>).tables[1] : r \in 0..MaxRows, c \in 1..MaxCols}

CellText(d, cell) ==
    LET own == SelectSeq(d, LAMBDA e : e.cell = cell)
    IN  [i \in 1..(Len(own) - 1) |-> own[i].ch]

IsWhitespace(text) == \A i \in DOMAIN text : text[i] \in {" ", Newline}

TableCells(d) == {d[k].cell : k \in DOMAIN d} \ {Outside}

\* the start index of the cell's first content run
Anchor(d, cell) == Min({k \in DOMAIN d : d[k].cell = cell})

\* step 4: the cells within the table's bounds that hold no text yet
CollectPending(spec, d) ==
    LET cellOf(c) == <<c.row, c.col>>
        kept == SelectSeq(spec.cellData,
                          LAMBDA c : /\ cellOf(c) \in TableCells(d)
                                     /\ IsWhitespace(CellText(d, cellOf(c))))
    IN  [i \in DOMAIN kept |->
            [anchor |-> Anchor(d, cellOf(kept[i])),
             text |-> kept[i].text,
             bold |-> kept[i].bold]]

\* step 5: ascending anchor index
RECURSIVE SortByAnchor(_)
SortByAnchor(cells) ==
    IF cells = <<>> THEN <<>>
    ELSE LET i == CHOOSE i \in DOMAIN cells :
                    \A j \in DOMAIN cells : cells[i].anchor <= cells[j].anchor
         IN  <<cells[i]>>
             \o SortByAnchor(SubSeq(cells, 1, i - 1) \o SubSeq(cells, i + 1, Len(cells)))

\* mutant: the insertions before this one are not counted
AdjustedIndex_AnchorOnly(anchor, cumulativeOffset) == anchor

AdjustedIndex(anchor, cumulativeOffset) == anchor + cumulativeOffset

\* step 5: the walk over the sorted cells
RECURSIVE CellOperationsFrom(_, _)
CellOperationsFrom(sorted, cumulativeOffset) ==
    IF sorted = <<>> THEN <<>>
    ELSE LET c == Head(sorted)
             adjustedIndex == AdjustedIndex(c.anchor, cumulativeOffset)
         IN  <<InsertText(adjustedIndex, c.text)>>
             \o (IF c.bold
                  THEN <<UpdateTextStyle(adjustedIndex, adjustedIndex + Len(c.text),
                                         [bold |-> TRUE], "bold")>>
                  ELSE <<>>)
             \o CellOperationsFrom(Tail(sorted), cumulativeOffset + Len(c.text))

\* the document service applying one operation: inserted text joins the
\* paragraph that holds the index
ApplyOperation(d, op) ==
    IF "insertText" \in DOMAIN op
    THEN LET idx == op.insertText.location.index
         IN  SubSeq(d, 1, idx - 1)
             \o Chars(op.insertText.text, d[idx].cell)
             \o SubSeq(d, idx, Len(d))
    ELSE LET range == op.updateTextStyle.range
         IN  [k \in DOMAIN d |->
                IF range.startIndex <= k /\ k < range.endIndex
                THEN [d[k] EXCEPT !.bold = op.updateTextStyle.textStyle.bold]
                ELSE d[k]]

\* step 6: the batch applied in array order
RECURSIVE ApplyBatch(_, _)
ApplyBatch(d, ops) ==
    IF ops = <<>> THEN d ELSE ApplyBatch(ApplyOperation(d, Head(ops)), Tail(ops))

InitCells ==
    /\ pc = "materialized"
    /\ doc = <<SectionBreak>>
    /\ SectionsIdle
    /\ SearchIdle
    /\ Constructed
    /\ RebaseIdle
    /\ tableSpec \in TableSpecs
    /\ snapshot \in Snapshots(tableSpec.rows, tableSpec.cols)
    /\ pending = <<>>
    /\ cellOperations = <<>>
    /\ populated = <<>>

CollectCells ==
    /\ pc = "materialized"
    /\ pending' = CollectPending(tableSpec, snapshot)
    /\ pc' = "collected"
    /\ UNCHANGED <<doc, secVars, searchVars, convVars, callVars, rebaseVars, tableSpec,
                   snapshot, cellOperations, populated>>

BuildCellOperations ==
    /\ pc = "collected"
    /\ cellOperations' = CellOperationsFrom(SortByAnchor(pending), 0)
    /\ pc' = "built"
    /\ UNCHANGED <<doc, secVars, searchVars, convVars, callVars, rebaseVars, tableSpec,
                   snapshot, pending, populated>>

ApplyCellOperations ==
    /\ pc = "built"
    /\ populated' = ApplyBatch(snapshot, cellOperations)
    /\ pc' = "applied"
    /\ UNCHANGED <<doc, secVars, searchVars, convVars, callVars, rebaseVars, tableSpec,
                   snapshot, pending, cellOperations>>

NextCells ==
    \/ CollectCells
    \/ BuildCellOperations
    \/ ApplyCellOperations

SpecCells == InitCells /\ [][NextCells]_vars

\* ------------------------------------------- extractPlainText on its own
WrapAs(w, kids) ==
    CASE w = "strong" -> Strong(kids)
      [] w = "em" -> Em(kids)
      [] w = "link" -> Link(kids)
      [] w = "del" -> Del(kids)
      [] w = "text" -> BlockText(kids)
      [] w = "paragraph" -> ParagraphToken(kids)

WrapTypes == {"strong", "em", "link", "del", "text", "paragraph"}

FlatLeaves ==
    {Plain(<<"a">>), Plain(<<>>), Codespan(<<"c">>), Escape("_"), SpaceToken, Br,
     HrToken, Link(<<>>)}

KidLeaves == {Plain(<<"a">>), Codespan(<<"c">>), SpaceToken}

Depth1 == {WrapAs(w, kids) : w \in WrapTypes, kids \in SeqsUpTo(KidLeaves, MaxKids)}

Depth2 == {WrapAs(w, <<Plain(<<"b">>), d>>) : w \in WrapTypes, d \in Depth1}

\* "**bold *and* nested**"
BoldAndNested == Strong(<<Plain(<<"a">>), Em(<<Plain(<<"b">>)>>), Plain(<<"c">>)>>)

FlatInputs ==
    {<<>>, <<BoldAndNested>>}
    \cup {<<t>> : t \in FlatLeaves \cup Depth1 \cup Depth2}
    \cup {<<l, d>> : l \in FlatLeaves, d \in Depth1}

InitFlatten ==
    /\ pc = "constructed"
    /\ doc = <<SectionBreak>>
    /\ SectionsIdle
    /\ SearchIdle
    /\ tokens \in FlatInputs
    /\ tokIdx = 0
    /\ requests = <<>>
    /\ tableInsertRequests = <<>>
    /\ tables = <<>>
    /\ currentIndex = 1
    /\ result = None
    /\ flatText = <<>>
    /\ arrayId = 0
    /\ earlier = <<>>
    /\ RebaseIdle
    /\ CellsIdle

ExtractPlainText ==
    /\ pc = "constructed"
    /\ flatText' = extractPlainText(tokens)
    /\ pc' = "flattened"
    /\ UNCHANGED <<doc, callVars, batchVars,
                 secVars, searchVars, tokens, tokIdx, requests,
                   tableInsertRequests, tables, currentIndex, result>>

NextFlatten == ExtractPlainText

SpecFlatten == InitFlatten /\ [][NextFlatten]_vars

\* ============================================================ section claims
HeadingElems == SelectSeq(doc, IsHeading)

LevelOfElem(e) == ParseLevel(e.paragraphStyle.namedStyleType)

DocEndIndex == Last(doc).endIndex

Parsed == pc \in {"parsed", "outlined", "contentDelete", "sectionDelete"}


\* The headings after heading i that close its section.
Closers(i) ==
    {j \in (i + 1)..Len(HeadingElems) :
        LevelOfElem(HeadingElems[j]) <= LevelOfElem(HeadingElems[i])}

Boundary(i) ==
    IF Closers(i) # {} THEN HeadingElems[Min(Closers(i))].startIndex
    ELSE DocEndIndex

\* C3: every section ends (sectionEndIndex and contentEndIndex) at the start
\* of the first later heading of the same or a shallower level, or at the
\* end index of the last body element when there is none; it starts at its
\* heading's start and its content starts at its heading's end.
C3_SectionBoundaries ==
    Parsed =>
        /\ Len(sections) = Len(HeadingElems)
        /\ \A i \in DOMAIN sections :
            /\ sections[i].sectionEndIndex = Boundary(i)
            /\ sections[i].contentEndIndex = Boundary(i)
            /\ sections[i].sectionStartIndex = HeadingElems[i].startIndex
            /\ sections[i].contentStartIndex = HeadingElems[i].endIndex

\* A section closed by a later heading after skipping a deeper one, and a
\* section that runs to the end of the document.
W_C3_SkipsDeeperHeading ==
    /\ Parsed
    /\ \E i \in DOMAIN sections :
        /\ Closers(i) # {}
        /\ Min(Closers(i)) > i + 1
    /\ \E i \in DOMAIN sections : i < Len(sections) /\ Closers(i) = {}

\* C4 as stated: the sections tile [first heading start, document end], each
\* ending where the next one starts.
C4_SectionsTile ==
    (Parsed /\ Len(sections) > 0) =>
        /\ sections[1].sectionStartIndex = HeadingElems[1].startIndex
        /\ \A i \in 1..(Len(sections) - 1) :
            sections[i].sectionEndIndex = sections[i + 1].sectionStartIndex
        /\ sections[Len(sections)].sectionEndIndex = DocEndIndex

\* C4 amended: the sections cover [first heading start, document end) without
\* gaps, the first starting at the first heading and the last ending at the
\* document end; a section ends where the next one starts exactly when the
\* next heading is not deeper, and otherwise the next section lies inside it,
\* so that two sections are either disjoint or nested.
C4_SectionsNest ==
    (Parsed /\ Len(sections) > 0) =>
        /\ sections[1].sectionStartIndex = HeadingElems[1].startIndex
        /\ sections[Len(sections)].sectionEndIndex = DocEndIndex
        /\ \A x \in HeadingElems[1].startIndex..(DocEndIndex - 1) :
            \E i \in DOMAIN sections :
                sections[i].sectionStartIndex <= x /\ x < sections[i].sectionEndIndex
        /\ \A i \in 1..(Len(sections) - 1) :
            IF sections[i + 1].level <= sections[i].level
            THEN sections[i].sectionEndIndex = sections[i + 1].sectionStartIndex
            ELSE /\ sections[i + 1].sectionStartIndex < sections[i].sectionEndIndex
                 /\ sections[i + 1].sectionEndIndex <= sections[i].sectionEndIndex
        /\ \A i, j \in DOMAIN sections :
            i < j =>
                \/ sections[i].sectionEndIndex <= sections[j].sectionStartIndex
                \/ sections[j].sectionEndIndex <= sections[i].sectionEndIndex

W_C4_NestedAndSibling ==
    /\ Parsed
    /\ Len(sections) >= 3
    /\ \E i \in 1..(Len(sections) - 1) : sections[i + 1].level > sections[i].level
    /\ \E i \in 1..(Len(sections) - 1) : sections[i + 1].level <= sections[i].level

\* ------------------------------------------------------------------ outline
ParentOf(o, j) ==
    LET ps == {i \in DOMAIN o.children : j \in Range(o.children[i])}
    IN  IF ps = {} THEN 0 ELSE CHOOSE i \in ps : TRUE

RECURSIVE IsDescendant(_, _, _)
IsDescendant(o, i, j) ==
    \E k \in Range(o.children[i]) : k = j \/ IsDescendant(o, k, j)

Max(S) == CHOOSE x \in S : \A y \in S : x >= y

Shallower(j) == {i \in 1..(j - 1) : sections[i].level < sections[j].level}

\* C5: buildOutline attaches every section to the nearest preceding section
\* of a strictly smaller level (to the top level when there is none), each
\* exactly once, and section j is a descendant of section i exactly when j's
\* heading starts strictly inside i's sectionRange.
C5_OutlineNesting ==
    pc = "outlined" =>
        /\ \A j \in DOMAIN sections :
            /\ Cardinality({i \in DOMAIN sections : j \in Range(outline.children[i])})
                 + Cardinality({r \in DOMAIN outline.roots : outline.roots[r] = j}) = 1
            /\ IF Shallower(j) = {}
               THEN j \in Range(outline.roots)
               ELSE j \in Range(outline.children[Max(Shallower(j))])
        /\ \A i, j \in DOMAIN sections :
            IsDescendant(outline, i, j) <=>
                /\ sections[i].sectionStartIndex < sections[j].headingStartIndex
                /\ sections[j].headingStartIndex < sections[i].sectionEndIndex

\* The example of the claim: headings at levels 1, 2, 2, 1.
W_C5_Levels1221 ==
    /\ pc = "outlined"
    /\ [i \in DOMAIN sections |-> sections[i].level] = <<1, 2, 2, 1>>
    /\ outline.roots = <<1, 4>>
    /\ outline.children[1] = <<2, 3>>
    /\ sections[1].contentEndIndex = sections[4].headingStartIndex

\* ---------------------------------------------------------- delete requests
\* C9: the content delete request preserves the heading: it is null when the
\* content range is empty, and otherwise its range lies inside
\* [contentStartIndex, contentEndIndex) and meets no index of the heading.
C9_ContentDeletePreservesHeading ==
    pc = "contentDelete" =>
        LET s == sections[reqSection]
        IN  IF s.contentStartIndex >= s.contentEndIndex
            THEN request = None
            ELSE /\ request # None
                 /\ LET r == request.deleteContentRange.range
                    IN  /\ r.startIndex <= r.endIndex
                        /\ s.contentStartIndex <= r.startIndex
                        /\ r.endIndex <= s.contentEndIndex
                        /\ \A x \in r.startIndex..(r.endIndex - 1) :
                            ~(s.headingStartIndex <= x /\ x < s.headingEndIndex)

W_C9_DeletesContent ==
    /\ pc = "contentDelete"
    /\ request # None
    /\ request.deleteContentRange.range.startIndex
         < request.deleteContentRange.range.endIndex
    /\ reqSection < Len(sections)

OccursAt(text, q, p) ==
    /\ p + Len(q) <= Len(text)
    /\ \A k \in 1..Len(q) : LowerChars(text[p + k]) = LowerChars(q[k])

\* The offsets a left-to-right scan reports: an occurrence that no earlier
\* reported occurrence overlaps.
Reported(text, q) ==
    LET rep[p \in 0..Len(text)] ==
            /\ OccursAt(text, q, p)
            /\ \A r \in 0..(p - 1) : (r + Len(q) > p) => ~rep[r]
    IN  {p \in 0..Len(text) : rep[p]}

InScope(element) ==
    /\ element.kind = "paragraph"
    /\ \/ searchSection = None
       \/ /\ searchSection.sectionStartIndex <= element.startIndex
          /\ element.startIndex < searchSection.sectionEndIndex

ExpectedMatches ==
    UNION {{<<doc[e].startIndex + p, doc[e].startIndex + p + Len(query)>> :
                p \in Reported(extractTextFromParagraph(doc[e]), query)} :
            e \in {e \in DOMAIN doc : InScope(doc[e])}}

\* C7: for a non-empty query, searchInDocument returns exactly the
\* non-overlapping case-insensitive occurrences of a left-to-right scan of
\* every paragraph in scope, at startIndex = paragraph start + offset and
\* endIndex = startIndex + query length, with text equal to the query up to
\* case, in ascending position; without a section every paragraph is in
\* scope, with one only those starting in [sectionStartIndex, sectionEndIndex).
C7_SearchMatches ==
    pc = "searched" /\ query # <<>> =>
        /\ {<<matches[i].startIndex, matches[i].endIndex>> : i \in DOMAIN matches}
             = ExpectedMatches
        /\ \A i \in DOMAIN matches :
            /\ matches[i].endIndex = matches[i].startIndex + Len(query)
            /\ toLowerCase(matches[i].text) = toLowerCase(query)
            /\ \E e \in DOMAIN doc :
                /\ InScope(doc[e])
                /\ matches[i].paragraphIndex = doc[e].startIndex
                /\ matches[i].startIndex - doc[e].startIndex
                     \in Reported(extractTextFromParagraph(doc[e]), query)
        /\ \A i \in 1..(Len(matches) - 1) :
            matches[i].startIndex < matches[i + 1].startIndex

\* Lower-casing keeps the length of the searched text and of the query.
LengthKept ==
    /\ DottedI \notin Range(query)
    /\ \A e \in DOMAIN doc :
        doc[e].kind = "paragraph" => DottedI \notin Range(extractTextFromParagraph(doc[e]))

\* The statement of C7 for text and queries whose lower case has their length.
SearchMatchesWhenLengthKept == LengthKept => C7_SearchMatches

\* C16: searchInDocument terminates for every document and every query, the
\* empty query too: every iteration of the scan loop of a paragraph, which
\* records a match, moves the scan index forward.
C16_ScanMakesProgress ==
    [][(pc = "searching" /\ matches' # matches) => index' > index]_vars

\* ========================================================== converter claims
IsInsert(req) == "insertText" \in DOMAIN req

RangeOf(req) ==
    IF "updateTextStyle" \in DOMAIN req THEN req.updateTextStyle.range
    ELSE IF "updateParagraphStyle" \in DOMAIN req THEN req.updateParagraphStyle.range
    ELSE req.createParagraphBullets.range

\* every index an operation carries
IndicesOf(req) ==
    IF IsInsert(req) THEN {req.insertText.location.index}
    ELSE {RangeOf(req).startIndex, RangeOf(req).endIndex}

RECURSIVE InsertedLength(_)
InsertedLength(reqs) ==
    IF reqs = <<>> THEN 0
    ELSE (IF IsInsert(Head(reqs)) THEN Len(Head(reqs).insertText.text) ELSE 0)
         + InsertedLength(Tail(reqs))

\* C1: when convert returns, the cursor is 1 + the total length of the text
\* the InsertText operations of contentRequests carry, and no operation of
\* contentRequests carries an index beyond that cursor.
C1_FinalCursorBoundsScript ==
    pc = "returned" =>
        /\ currentIndex = 1 + InsertedLength(result.contentRequests)
        /\ \A i \in DOMAIN result.contentRequests :
            \A x \in IndicesOf(result.contentRequests[i]) : x <= currentIndex

\* The span formatted last: the children of the heading or paragraph just
\* processed, or of the last item of the list just processed.
AfterSpan ==
    /\ pc \in {"converting", "returned"}
    /\ tokIdx >= 1
    /\ tokens[tokIdx].type \in {"heading", "paragraph", "list"}

LastSpan ==
    IF tokens[tokIdx].type = "list"
    THEN Last(tokens[tokIdx].items).tokens
    ELSE tokens[tokIdx].tokens

LastSpanStart == currentIndex - (Len(extractPlainText(LastSpan)) + 1)

\* The style operations of a span when the running offset advances by the
\* length of every child's flattened text.
RECURSIVE StylesByFlattenedLength(_, _)
StylesByFlattenedLength(kids, start) ==
    Concat([i \in DOMAIN kids |->
        LET offset == Len(extractPlainText(SubSeq(kids, 1, i - 1)))
            length == Len(extractPlainText(<<kids[i]>>))
        IN  InlineStyle(kids[i], start + offset, start + offset + length)
            \o StylesByFlattenedLength(kids[i].tokens, start + offset)])

\* C2: applyInlineFormatting advances the running offset by the length of
\* each child's flattened text, so the style operations it pushes for a span
\* are those whose ranges cover the flattened text of the styled children.
C2_OffsetsFollowFlattenedText ==
    AfterSpan =>
        LET expected == StylesByFlattenedLength(LastSpan, LastSpanStart)
        IN  /\ Len(requests) >= Len(expected)
            /\ SubSeq(requests, Len(requests) - Len(expected) + 1, Len(requests))
                 = expected

\* C13: contentRequests can be applied in array order to an empty document:
\* every InsertText is at 1 + the length of the text the operations before it
\* insert, and every style, paragraph-style and bullet operation has its
\* range within the text the operations before it inserted.
C13_ScriptAppliesInOrder ==
    pc = "returned" =>
        \A i \in DOMAIN result.contentRequests :
            LET req == result.contentRequests[i]
                end == 1 + InsertedLength(SubSeq(result.contentRequests, 1, i - 1))
            IN  IF IsInsert(req)
                THEN req.insertText.location.index = end
                ELSE /\ 1 <= RangeOf(req).startIndex
                     /\ RangeOf(req).startIndex <= RangeOf(req).endIndex
                     /\ RangeOf(req).endIndex <= end

\* C15: every range convert emits is well-formed and not empty,
\* 1 <= startIndex < endIndex: the paragraph-style range of a heading, the
\* bullet range of a list item, the style range of a code block and the
\* inline style ranges, also when the flattened text is empty.
C15_RangesNotEmpty ==
    pc = "returned" =>
        \A i \in DOMAIN result.contentRequests :
            LET req == result.contentRequests[i]
            IN  ~IsInsert(req) =>
                    /\ 1 <= RangeOf(req).startIndex
                    /\ RangeOf(req).startIndex < RangeOf(req).endIndex

\* the result objects the caller holds, as they read now
ReturnedSoFar ==
    [i \in DOMAIN earlier |-> earlier[i].value]
    \o (IF result = None THEN <<>> ELSE <<result>>)

\* C14: every convert call on one converter starts from cursor 1 with an
\* empty script and empty table metadata and returns what a converter just
\* constructed returns for the same input, and no step of a later call
\* changes a result object returned before.
C14_CallsAreIndependent ==
    /\ [](pc = "converting" /\ tokIdx = 0 =>
            /\ currentIndex = 1
            /\ requests = <<>>
            /\ tableInsertRequests = <<>>
            /\ tables = <<>>)
    /\ [](pc = "returned" => result = convert(tokens))
    /\ [][\A i \in DOMAIN ReturnedSoFar : ReturnedSoFar'[i] = ReturnedSoFar[i]]_vars

W_C14_SecondCallAfterTables ==
    /\ pc = "returned"
    /\ Len(earlier) >= 1
    /\ earlier[1].value.tables # <<>>
    /\ earlier[1].value.contentRequests # <<>>
    /\ result.contentRequests # <<>>
    /\ result # earlier[1].value

\* ----------------------------------------------------------------- flattener
\* The visible text of a token list as the rule gives it: children first,
\* then the literal text, a space node being one space.
RECURSIVE VisibleText(_)
VisibleText(toks) ==
    Concat([i \in DOMAIN toks |->
        IF Len(toks[i].tokens) > 0 THEN VisibleText(toks[i].tokens)
        ELSE IF toks[i].type = "space" THEN <<" ">>
        ELSE toks[i].text])

MarkupChars == {"*", "[", "]", "(", ")", "~", "\\", Tick}

\* C6: extractPlainText returns the left-to-right concatenation of the
\* visible text of its nodes: the flattening of the children of a node that
\* has some, the literal text of a node that has none, one space for a space
\* node; no markup of a bold, italic or link node reaches the output.
C6_FlattenByChildrenFirst ==
    pc = "flattened" =>
        /\ flatText = VisibleText(tokens)
        /\ \A i \in DOMAIN flatText : flatText[i] \notin MarkupChars

\* The example "**bold *and* nested**" flattened.
W_C6_BoldAndNested ==
    /\ pc = "flattened"
    /\ tokens = <<BoldAndNested>>
    /\ flatText = <<"a", "b", "c">>
    /\ "*" \in Range(tokens[1].text)

\* -------------------------------------------------------------------- tables
TableIsNext ==
    /\ pc = "converting"
    /\ tokIdx < Len(tokens)
    /\ tokens[tokIdx + 1].type = "table"

\* C8: a table token of c header columns and r data rows met at cursor p
\* pushes exactly one InsertText of "[TABLE:(r+1)xc]" and a newline at p,
\* moves the cursor by the placeholder's length, pushes no native table
\* operation, and records a table with placeholderIndex p, rows r + 1, cols c
\* and exactly one cell for every coordinate, bold exactly in row 0.
C8_TablePlaceholder ==
    [][TableIsNext =>
        LET token == tokens[tokIdx + 1]
            r == Len(token.rows)
            c == Len(token.header)
            p == currentIndex
            placeholder == <<"[", "T", "A", "B", "L", "E", ":">> \o Digits(r + 1)
                           \o <<"x">> \o Digits(c) \o <<"]", Newline>>
        IN  /\ requests' = Append(requests, InsertText(p, placeholder))
            /\ currentIndex' = p + Len(placeholder)
            /\ \A i \in DOMAIN requests' : "insertTable" \notin DOMAIN requests'[i]
            /\ Len(tables') = Len(tables) + 1
            /\ SubSeq(tables', 1, Len(tables)) = tables
            /\ LET t == tables'[Len(tables')]
               IN  /\ t.placeholderIndex = p
                   /\ t.rows = r + 1
                   /\ t.cols = c
                   /\ Len(t.cellData) = (r + 1) * c
                   /\ \A row \in 0..r : \A col \in 0..(c - 1) :
                        Cardinality({k \in DOMAIN t.cellData :
                            t.cellData[k].row = row /\ t.cellData[k].col = col}) = 1
                   /\ \A k \in DOMAIN t.cellData :
                        t.cellData[k].bold <=> (t.cellData[k].row = 0)
    ]_vars

\* A table of two data rows and two columns processed after another block.
W_C8_TableAfterBlock ==
    /\ pc = "converting"
    /\ tokIdx = 2
    /\ tokens[2].type = "table"
    /\ Len(tokens[2].rows) = 2
    /\ Len(tokens[2].header) = 2
    /\ Len(tables) >= 1
    /\ tables[Len(tables)].placeholderIndex > 1
    /\ currentIndex = tables[Len(tables)].placeholderIndex + 12

\* ============================================================= rebaser claim
\* the index fields the operation's variant carries, in order
IndexFields(op) ==
    IF "insertText" \in DOMAIN op THEN <<op.insertText.location.index>>
    ELSE IF "insertTable" \in DOMAIN op THEN <<>>
    ELSE LET k == CHOOSE k \in DOMAIN op : TRUE
         IN  <<op[k].range.startIndex, op[k].range.endIndex>>

\* the operation without the index fields of its variant
WithoutIndexFields(op) ==
    IF "insertTable" \in DOMAIN op THEN op
    ELSE [k \in DOMAIN op |->
            [f \in DOMAIN op[k] \ {"location", "range"} |-> op[k][f]]]

Variants(ops) == UNION {DOMAIN ops[i] : i \in DOMAIN ops}

\* C11: rebasing a script compiled at cursor 1 to insertIndex adds
\* insertIndex - 1 to every index field of every InsertText, SetTextStyle,
\* SetParagraphStyle, SetBullets and DeleteRange operation and changes
\* nothing else; rebasing the result by the opposite offset gives the script
\* back.
C11_RebaseShiftsEveryIndex ==
    /\ pc \in {"rebased", "restored"} =>
        /\ Len(rebased) = Len(script)
        /\ \A i \in DOMAIN script :
            /\ IndexFields(rebased[i])
                 = [j \in DOMAIN IndexFields(script[i]) |->
                        IndexFields(script[i])[j] + (insertIndex - 1)]
            /\ WithoutIndexFields(rebased[i]) = WithoutIndexFields(script[i])
    /\ pc = "restored" => restored = script

W_C11_EveryVariantMoved ==
    /\ pc = "restored"
    /\ insertIndex > 1
    /\ Variants(script) = {"insertText", "updateTextStyle", "updateParagraphStyle",
                           "createParagraphBullets", "deleteContentRange",
                           "insertTable"}
    /\ rebased # script

\* ===================================================== cell population claim
CellOf(c) == <<c.row, c.col>>

\* the recorded cells the retrieved table has
InTable == {c \in Range(tableSpec.cellData) : CellOf(c) \in TableCells(snapshot)}

\* those that hold no text yet, and those that hold some
Writable == {c \in InTable : IsWhitespace(CellText(snapshot, CellOf(c)))}

Guarded == InTable \ Writable

AnchorOf(c) == Anchor(snapshot, CellOf(c))

Before(c) == {d \in Writable : AnchorOf(d) < AnchorOf(c)}

RECURSIVE TextLength(_)
TextLength(cells) ==
    IF cells = {} THEN 0
    ELSE LET c == CHOOSE c \in cells : TRUE
         IN  Len(c.text) + TextLength(cells \ {c})

\* C12: the batch holds one InsertText per recorded cell that holds no text
\* yet, in ascending anchor order, at the cell's anchor plus the total length
\* of the texts of the cells written before it; a bold cell's InsertText is
\* followed by a SetTextStyle over [adjustedIndex, adjustedIndex + len(text));
\* applied in array order to the retrieved document, the batch puts every
\* cell's text in its own cell, and a cell that holds non-whitespace text is
\* left as it is, with no operation in the batch.
C12_CellTextsLandInTheirCells ==
    /\ pc \in {"built", "applied"} =>
        /\ Len(cellOperations)
             = Cardinality(Writable) + Cardinality({c \in Writable : c.bold})
        /\ \A c \in Writable :
            LET k == Cardinality(Before(c)) + Cardinality({d \in Before(c) : d.bold}) + 1
                adjustedIndex == AnchorOf(c) + TextLength(Before(c))
            IN  /\ cellOperations[k] = InsertText(adjustedIndex, c.text)
                /\ c.bold =>
                    /\ "updateTextStyle" \in DOMAIN cellOperations[k + 1]
                    /\ cellOperations[k + 1].updateTextStyle.range
                         = [startIndex |-> adjustedIndex,
                            endIndex |-> adjustedIndex + Len(c.text)]
    /\ pc = "applied" =>
        /\ \A c \in Writable :
            CellText(populated, CellOf(c)) = c.text \o CellText(snapshot, CellOf(c))
        /\ \A c \in Guarded :
            CellText(populated, CellOf(c)) = CellText(snapshot, CellOf(c))
        /\ SelectSeq(populated, LAMBDA e : e.cell = Outside)
             = SelectSeq(snapshot, LAMBDA e : e.cell = Outside)

W_C12_LaterCellShifted ==
    /\ pc = "applied"
    /\ Guarded # {}
    /\ \E c \in Writable :
        /\ ~c.bold
        /\ c.text # <<>>
        /\ CellText(snapshot, CellOf(c)) # <<>>
        /\ TextLength(Before(c)) > 2
        /\ \E d \in Before(c) : d.bold

====
